---- MODULE Spec2Model ----
(***************************************************************************)
(* Model of the MBTI Form M scoring engine (src/scorer.js) over the item   *)
(* table of src/itemParameterMatrix.js.                                    *)
(*                                                                         *)
(* Numbers.  The engine computes with IEEE doubles.  Here every real       *)
(* quantity (theta, a, b, P, Q, the gradient and the information sums) is  *)
(* an integer number of units of 10^-7 (ONE == 10^7 stands for 1.0), and   *)
(* every product and quotient is rounded to the nearest unit.  All         *)
(* intermediate values stay below 2^31.  The estimates agree with the      *)
(* double computation to within Slack units.  A decision of the code that  *)
(* the units cannot settle (the convergence test of a pass, the rounding   *)
(* of an estimate within Slack of a half) has every outcome the doubles    *)
(* can give; a decision on an exact decimal (a grid estimate) is made as   *)
(* the doubles make it.                                                    *)
(***************************************************************************)
EXTENDS Integers, Sequences, FiniteSets, TLC

\* ------------------------------------------------------------------------
\* Fixed-point arithmetic
\* ------------------------------------------------------------------------

\* 1.0 in model units.
ONE == 10^7

\* Limb used to split a product so that no partial product overflows.
LIMB == 10^4

Abs(x) == IF x < 0 THEN -x ELSE x

Max(x, y) == IF x >= y THEN x ELSE y

Min(x, y) == IF x <= y THEN x ELSE y

\* round(x * y / ONE) for x, y >= 0.
MulFix(x, y) ==
  LET xh == x \div LIMB
      xl == x % LIMB
      yh == y \div LIMB
      yl == y % LIMB
  IN  xh * yh * 10 + ((xh * yl + xl * yh + (xl * yl) \div LIMB + 500) \div 1000)

\* The k leading decimal digits of r / den (0 <= r < den), rounded on the last.
RECURSIVE Digits(_, _, _, _)
Digits(r, den, k, q) ==
  IF k = 0 THEN q + (IF 2 * r >= den THEN 1 ELSE 0)
  ELSE Digits((r * 10) % den, den, k - 1, q * 10 + (r * 10) \div den)

\* round(num * ONE / den) for num >= 0, den > 0.
DivFix(num, den) == (num \div den) * ONE + Digits(num % den, den, 7, 0)

\* Math.exp(-n) for whole n = 0..16, in units; below one unit from n = 17 on.
ExpWhole == << 10000000, 3678794, 1353353, 497871, 183156, 67379, 24788, 9119,
               3355, 1234, 454, 167, 61, 23, 8, 3, 1 >>

\* Math.exp(-j/8) for j = 0..7, in units.
ExpEighth == << 10000000, 8824969, 7788008, 6872893, 6065307, 5352614,
                4723666, 4168620 >>

\* exp(-r) for 0 <= r < 1/8 by the Taylor series to the sixth power (Horner).
RECURSIVE ExpSeries(_, _, _)
ExpSeries(r, k, t) ==
  IF k = 0 THEN t
  ELSE ExpSeries(r, k - 1, ONE - ((MulFix(r, t) + k \div 2) \div k))

\* Math.exp(-z) for z >= 0: exp(-n) * exp(-j/8) * exp(-r), z = n + j/8 + r.
ExpNeg(z) ==
  LET n == z \div ONE
      f == z % ONE
      j == f \div (ONE \div 8)
      r == f % (ONE \div 8)
  IN  IF n >= Len(ExpWhole) THEN 0
      ELSE MulFix(MulFix(ExpWhole[n + 1], ExpEighth[j + 1]), ExpSeries(r, 6, ONE))

\* ------------------------------------------------------------------------
\* Item parameter table (src/itemParameterMatrix.js)
\* ------------------------------------------------------------------------

\* Row i+1 is item i: << dichotomy, a in units of 10^-4, b in units of 10^-2 >>,
\* the decimals of the source written as integers.
ItemRows ==
   <<
      <<"J-P", 15785, 93>>, <<"S-N", 11504, 110>>, <<"E-I", 19903, -1>>,
      <<"J-P", 15361, -24>>, <<"S-N", 10361, -75>>, <<"T-F", 9063, 62>>,
      <<"E-I", 12118, -9>>, <<"J-P", 15785, -22>>, <<"S-N", 11209, -84>>,
      <<"E-I", 11504, -65>>, <<"S-N", 13449, -31>>, <<"J-P", 12118, 72>>,
      <<"E-I", 11504, 76>>, <<"J-P", 9827, 67>>, <<"T-F", 9063, -80>>,
      <<"E-I", 12118, 42>>, <<"J-P", 4964, 13>>, <<"S-N", 6778, 88>>,
      <<"E-I", 12437, 98>>, <<"J-P", 9827, 44>>, <<"T-F", 12437, 51>>,
      <<"S-N", 8576, -40>>, <<"E-I", 9063, 52>>, <<"J-P", 11209, 118>>,
      <<"S-N", 7428, -158>>, <<"E-I", 15785, -61>>, <<"S-N", 10920, 135>>,
      <<"J-P", 15785, 21>>, <<"T-F", 10361, -40>>, <<"S-N", 13102, 111>>,
      <<"T-F", 14176, 105>>, <<"E-I", 21931, -37>>, <<"T-F", 12765, -90>>,
      <<"S-N", 11209, -37>>, <<"T-F", 13449, -68>>, <<"J-P", 9063, 51>>,
      <<"T-F", 11807, -84>>, <<"E-I", 16225, -71>>, <<"S-N", 8817, -33>>,
      <<"T-F", 12765, 132>>, <<"J-P", 7428, -90>>, <<"E-I", 16683, 31>>,
      <<"T-F", 7651, -73>>, <<"S-N", 11209, 110>>, <<"T-F", 6778, -87>>,
      <<"S-N", 11807, 23>>, <<"T-F", 9567, 102>>, <<"S-N", 12765, 143>>,
      <<"T-F", 10361, 102>>, <<"S-N", 9827, -17>>, <<"T-F", 11807, -60>>,
      <<"S-N", 8339, -67>>, <<"T-F", 14176, -46>>, <<"S-N", 9063, -57>>,
      <<"J-P", 8576, 8>>, <<"T-F", 12437, -11>>, <<"E-I", 12765, -118>>,
      <<"T-F", 11209, 114>>, <<"J-P", 13449, -37>>, <<"S-N", 11504, 60>>,
      <<"T-F", 11807, -5>>, <<"E-I", 12765, 5>>, <<"S-N", 10638, -5>>,
      <<"J-P", 7651, -77>>, <<"S-N", 12765, 78>>, <<"T-F", 13102, -38>>,
      <<"S-N", 13449, -70>>, <<"E-I", 10361, 115>>, <<"S-N", 8339, -42>>,
      <<"T-F", 10638, -167>>, <<"S-N", 10361, -150>>, <<"T-F", 10091, -31>>,
      <<"S-N", 13102, 9>>, <<"E-I", 13102, 55>>, <<"T-F", 11504, 105>>,
      <<"J-P", 16683, 62>>, <<"E-I", 10920, 79>>, <<"J-P", 16683, -120>>,
      <<"E-I", 19299, 24>>, <<"J-P", 14558, -98>>, <<"E-I", 11807, -30>>,
      <<"S-N", 11504, -66>>, <<"E-I", 14952, -99>>, <<"J-P", 15361, 63>>,
      <<"E-I", 12118, -116>>, <<"J-P", 10091, 21>>, <<"T-F", 12118, 32>>,
      <<"J-P", 15361, -105>>, <<"T-F", 5749, 75>>, <<"J-P", 10638, -101>>,
      <<"E-I", 16683, 30>>, <<"S-N", 5353, 61>>, <<"J-P", 14558, 43>>
   >>

\* itemParameters[i].params.a and .b in model units, .dichotomy as in the source.
itemParameters ==
  [ i \in 0 .. (Len(ItemRows) - 1) |->
      [ dichotomy |-> ItemRows[i + 1][1],
        params    |-> [ a |-> ItemRows[i + 1][2] * 1000,
                        b |-> ItemRows[i + 1][3] * 100000 ] ] ]

\* The question catalogue (questions.json) read by the engine: every question has
\* the options "A" and "B", one keyed to the positive pole (scoreKey 1) and the
\* other to the negative pole (scoreKey 0); "A" is the positive one on even items.
MBTI_Form_M ==
  [ q \in 0 .. (Len(ItemRows) - 1) |->
      [ options |-> [ A |-> [ scoreKey |-> IF q % 2 = 0 THEN 1 ELSE 0 ],
                      B |-> [ scoreKey |-> IF q % 2 = 0 THEN 0 ELSE 1 ] ] ] ]

\* ------------------------------------------------------------------------
\* Engine configuration (src/scorer.js)
\* ------------------------------------------------------------------------

DICHOTOMY_CONFIG ==
  [ d \in {"E-I", "S-N", "T-F", "J-P"} |->
      CASE d = "E-I" -> [ poles |-> << "E", "I" >>, tieBreaker |-> "I" ]
        [] d = "S-N" -> [ poles |-> << "S", "N" >>, tieBreaker |-> "N" ]
        [] d = "T-F" -> [ poles |-> << "T", "F" >>, tieBreaker |-> "F" ]
        [] d = "J-P" -> [ poles |-> << "J", "P" >>, tieBreaker |-> "P" ] ]

\* The order in which Object.entries(DICHOTOMY_CONFIG) yields the dichotomies.
DichotomyOrder == << "E-I", "S-N", "T-F", "J-P" >>

maxIterations == 20

tolerance == ONE \div 10000

maxTheta == 3

\* BuildDichotomyToQuestionMap without the has() test: the list of a dichotomy
\* is set to [] before every push and keeps only its last item.
BuildDichotomyToQuestionMapNoHas ==
  [ d \in { itemParameters[i].dichotomy : i \in DOMAIN itemParameters } |->
      << CHOOSE i \in DOMAIN itemParameters :
           /\ itemParameters[i].dichotomy = d
           /\ \A j \in DOMAIN itemParameters : itemParameters[j].dichotomy = d => j <= i >> ]

\* The module-level loop that fills dichotomyToQuestionMap: the item indices in
\* ascending order, each pushed on the list of its dichotomy.
BuildDichotomyToQuestionMap ==
  [ d \in { itemParameters[i].dichotomy : i \in DOMAIN itemParameters } |->
      SelectSeq([ k \in 1 .. Len(ItemRows) |-> k - 1 ],
                LAMBDA i : itemParameters[i].dichotomy = d) ]

\* ------------------------------------------------------------------------
\* The 2PL response probability and the Newton-Raphson estimator
\* ------------------------------------------------------------------------

\* P(theta) = 1 / (1 + exp(-a * (theta - b))).  With E = exp(-a * |theta - b|) this
\* is 1 - E / (1 + E) when theta >= b and E / (1 + E) otherwise.
probability(theta, a, b) ==
  LET E == ExpNeg(MulFix(a, Abs(theta - b)))
      q == DivFix(E, ONE + E)
  IN  IF theta - b >= 0 THEN ONE - q ELSE q

\* null, as a record so that it compares with the answer records.
NULL == [ null |-> TRUE ]

\* answers[key] is truthy: the key is present and its value is not null.

Answered(answers, key) == key \in DOMAIN answers /\ answers[key] # NULL

\* KeyedItems reading answers[qIndex] where the code reads answers[qIndex + 1].
KeyedItemsNoOffset(dichotomyName, answers, index) ==
  LET allDichotomyIndices ==
        IF dichotomyName \in DOMAIN index THEN index[dichotomyName] ELSE << >>
      answeredQuestionIndices ==
        SelectSeq(allDichotomyIndices, LAMBDA qIndex : Answered(answers, qIndex))
  IN  [ k \in 1 .. Len(answeredQuestionIndices) |->
          LET qIndex == answeredQuestionIndices[k]
          IN  [ a |-> itemParameters[qIndex].params.a,
                b |-> itemParameters[qIndex].params.b,
                u |-> MBTI_Form_M[qIndex].options[answers[qIndex].choice].scoreKey ] ]

\* KeyedItems taking the answered items of every dichotomy, not only of the one
\* being estimated.
KeyedItemsAllItems(dichotomyName, answers, index) ==
  LET answeredQuestionIndices ==
        SelectSeq([ k \in 1 .. Len(ItemRows) |-> k - 1 ],
                  LAMBDA qIndex : Answered(answers, qIndex + 1))
  IN  [ k \in 1 .. Len(answeredQuestionIndices) |->
          LET qIndex == answeredQuestionIndices[k]
              answer == answers[qIndex + 1]
          IN  [ a |-> itemParameters[qIndex].params.a,
                b |-> itemParameters[qIndex].params.b,
                u |-> MBTI_Form_M[qIndex].options[answer.choice].scoreKey ] ]

\* The keyed responses { a, b, u } of the answered items of a dichotomy.
KeyedItems(dichotomyName, answers, index) ==
  LET allDichotomyIndices ==
        IF dichotomyName \in DOMAIN index THEN index[dichotomyName] ELSE << >>
      answeredQuestionIndices ==
        SelectSeq(allDichotomyIndices, LAMBDA qIndex : Answered(answers, qIndex + 1))
  IN  [ k \in 1 .. Len(answeredQuestionIndices) |->
          LET qIndex == answeredQuestionIndices[k]
              answer == answers[qIndex + 1]
          IN  [ a |-> itemParameters[qIndex].params.a,
                b |-> itemParameters[qIndex].params.b,
                u |-> MBTI_Form_M[qIndex].options[answer.choice].scoreKey ] ]

\* FirstTerm with the difference reversed: a * (P - u).
FirstTermReversed(item, P) ==
  LET m == P - item.u * ONE
  IN  IF m >= 0 THEN MulFix(item.a, m) ELSE -MulFix(item.a, -m)

\* SecondTerm of the 1PL model: the discrimination a left out of -a^2 * P * Q.
SecondTermNoDiscrimination(item, P) == -MulFix(P, ONE - P)

\* One item's terms: a * (u - P) and -a^2 * P * Q.
FirstTerm(item, P) ==
  LET m == item.u * ONE - P
  IN  IF m >= 0 THEN MulFix(item.a, m) ELSE -MulFix(item.a, -m)

SecondTerm(item, P) == -MulFix(MulFix(item.a, item.a), MulFix(P, ONE - P))

\* << firstDerivative, secondDerivative >> summed over items[i..].
RECURSIVE Derivatives(_, _, _, _, _)
Derivatives(items, theta, i, g, h) ==
  IF i > Len(items) THEN << g, h >>
  ELSE LET P == probability(theta, items[i].a, items[i].b)
       IN  Derivatives(items, theta, i + 1,
                       g + FirstTerm(items[i], P), h + SecondTerm(items[i], P))

\* firstDerivative / secondDerivative.  A quotient of magnitude 7 or more is
\* returned as 7: with |theta| <= 3 the clamp gives the same result for both.
NewtonDelta(g, h) ==
  LET mag == IF Abs(g) \div Abs(h) >= 7 THEN 7 * ONE ELSE DivFix(Abs(g), Abs(h))
  IN  IF (g >= 0) = (h >= 0) THEN mag ELSE -mag

\* How far the doubles of the loop may lie from the units computed here: 2 * 10^-6.
\* An iterate of the loop, and the change between two iterates, are known to this
\* model only to within Slack of the double the code holds.
Slack == 2 * (ONE \div 10^6)

\* change < tolerance, as the set of the outcomes the doubles may give: both when
\* the change computed here is within Slack of the tolerance.
ChangeBelowTolerance(change) ==
  { c < tolerance : c \in Max(0, change - Slack) .. (change + Slack) }

\* NewtonIteration with the clamp to [-3, 3] left out.
NewtonIterationUnclamped(items, theta) ==
  LET d == Derivatives(items, theta, 1, 0, 0)
  IN  IF Abs(d[2]) = 0
      THEN [ theta |-> theta, break |-> { TRUE } ]
      ELSE LET newTheta == theta - NewtonDelta(d[1], d[2])
           IN  [ theta |-> newTheta,
                 break |-> ChangeBelowTolerance(Abs(newTheta - theta)) ]

\* One pass of the loop body: the new theta and the outcomes the break test may
\* have.  Math.abs(secondDerivative) < 1e-9: 1e-9 is a hundredth of a unit, so an
\* integer number of units is below it exactly when it is 0.
NewtonIteration(items, theta) ==
  LET d == Derivatives(items, theta, 1, 0, 0)
      firstDerivative == d[1]
      secondDerivative == d[2]
  IN  IF Abs(secondDerivative) = 0
      THEN [ theta |-> theta, break |-> { TRUE } ]
      ELSE LET delta == NewtonDelta(firstDerivative, secondDerivative)
               newTheta == theta - delta
               clampedTheta == Max(-3 * ONE, Min(3 * ONE, newTheta))
               change == Abs(clampedTheta - theta)
           IN  [ theta |-> clampedTheta, break |-> ChangeBelowTolerance(change) ]

\* return theta at the end of a solve that left the loop with the iterate theta:
\* the doubles the code may return.  What calculateResults reports of an estimate
\* changes only where the estimate passes a multiple of 0.005 inside (-3, 3) (the
\* sign at 0, the pci at the odd multiples of 0.05, the hundredth at the odd
\* multiples of 0.005); when such a multiple lies within Slack of the iterate, the
\* double may be on either side of it, and the two ends of the interval stand for
\* the two sides.
Returned(theta) ==
  LET low == Max(1 - 3 * ONE, theta - Slack)
      high == Min(3 * ONE - 1, theta + Slack)
      step == ONE \div 200
  IN  IF low <= high /\ (low - 1) \div step # high \div step
      THEN { low, theta, high }
      ELSE { theta }

\* The loop from iteration iter on, started at theta: the estimates it may return.
RECURSIVE NewtonLoop(_, _, _)
NewtonLoop(items, theta, iter) ==
  IF iter >= maxIterations THEN Returned(theta)
  ELSE LET r == NewtonIteration(items, theta)
       IN  UNION { IF break THEN Returned(r.theta)
                   ELSE NewtonLoop(items, r.theta, iter + 1) : break \in r.break }

\* The estimates findBestThetaForDichotomy may return: 0 when no item of the
\* dichotomy is answered, what the loop returns otherwise.
findBestThetaForDichotomy(dichotomyName, answers, index) ==
  LET items == KeyedItems(dichotomyName, answers, index)
  IN  IF Len(items) = 0 THEN { 0 } ELSE NewtonLoop(items, 0, 0)

\* ------------------------------------------------------------------------
\* The preference resolver (the body of the loop of calculateResults)
\* ------------------------------------------------------------------------

\* SignPreference with theta >= 0 where the code tests theta > 0.
SignPreferenceTieHigh(dichotomy, theta) ==
  LET config == DICHOTOMY_CONFIG[dichotomy]
  IN  IF theta >= 0 THEN config.poles[1] ELSE config.poles[2]

\* Step 1: the letter given by the sign of theta, the tie-breaker at 0.
SignPreference(dichotomy, theta) ==
  LET config == DICHOTOMY_CONFIG[dichotomy]
  IN  IF theta > 0 THEN config.poles[1]
      ELSE IF theta < 0 THEN config.poles[2]
      ELSE config.tieBreaker

\* The magnitudes, in hundredths, of the decimals d/20 (d odd) at which the double
\* (Math.abs(theta) / 3.0) * 30 comes out below the half d/2 that the real
\* quotient equals: 1.4999999999999998 at 0.15, 3.4999999999999996 at 0.35,
\* 16.499999999999996 at 1.65 and 20.499999999999996 at 2.05.  At the 26 other
\* halves up to 3 the double is the half itself.
HalvesComputedBelow == { 15, 35, 165, 205 }

\* (Math.abs(theta) / maxTheta) * 30, in units: at a half that the doubles compute
\* from below, one unit below the half.
rawPciCalculation(theta) ==
  LET quotient == (Abs(theta) * 30) \div maxTheta
  IN  IF \E c \in HalvesComputedBelow : Abs(theta) = c * (ONE \div 100)
      THEN quotient - 1
      ELSE quotient

\* Math.floor in the place of Math.round: the fraction dropped.
MathFloor(x) == x \div ONE

\* Math.round: the nearest integer, a half rounded up.
MathRound(x) == (x + ONE \div 2) \div ONE

\* Pci without the Math.max(1, ...).
PciNoFloor(theta) == IF theta = 0 THEN 1 ELSE MathRound(rawPciCalculation(theta))

Pci(theta) == IF theta = 0 THEN 1 ELSE Max(1, MathRound(rawPciCalculation(theta)))

\* getPccCategory with > where the code tests >=.
getPccCategoryStrict(pci) ==
  IF pci > 26 THEN "Very Clear"
  ELSE IF pci > 16 THEN "Clear"
  ELSE IF pci > 6 THEN "Moderate"
  ELSE "Slight"

getPccCategory(pci) ==
  IF pci >= 26 THEN "Very Clear"
  ELSE IF pci >= 16 THEN "Clear"
  ELSE IF pci >= 6 THEN "Moderate"
  ELSE "Slight"

\* MidpointAdjustment with the same threshold, pci = 1, for all three dichotomies.
MidpointAdjustmentUniform(dichotomy, preference, pci) ==
  IF dichotomy = "S-N" /\ preference = "S" /\ pci = 1 THEN "N"
  ELSE IF dichotomy = "T-F" /\ preference = "T" /\ pci = 1 THEN "F"
  ELSE IF dichotomy = "J-P" /\ preference = "J" /\ pci = 1 THEN "P"
  ELSE preference

\* Step 3: the midpoint adjustments.
MidpointAdjustment(dichotomy, preference, pci) ==
  IF dichotomy = "S-N" /\ preference = "S" /\ pci = 1 THEN "N"
  ELSE IF dichotomy = "T-F" /\ preference = "T" /\ pci <= 2 THEN "F"
  ELSE IF dichotomy = "J-P" /\ preference = "J" /\ pci = 1 THEN "P"
  ELSE preference

\* 2^n modulo 25.
RECURSIVE PowerOfTwoMod25(_)
PowerOfTwoMod25(n) == IF n = 0 THEN 1 ELSE (2 * PowerOfTwoMod25(n - 1)) % 25

\* The least k >= 0 with m * 2^k >= 200: m/200 lies in [2^-k, 2^(1-k)).
RECURSIVE Doublings(_, _)
Doublings(m, k) == IF m >= 200 THEN k ELSE Doublings(2 * m, k + 1)

\* The double nearest m/200 (m odd, m/200 < 4) lies below m/200.  The double is
\* M / 2^e with M the integer nearest m * 2^e / 200 = m * 2^(e-3) / 25, where e
\* puts M in [2^52, 2^53): e = 51 for [2, 4) and 52 + k for [2^-k, 2^(1-k)).  The
\* remainder of m * 2^(e-3) by 25 (2^20 = 1 mod 25) is what the rounding to M
\* drops: 1..12 rounds down, 13..24 up, 0 means m/200 is a double.
DoubleBelow(m) ==
  LET e == IF m >= 400 THEN 51 ELSE 52 + Doublings(m, 0)
      dropped == ((m % 25) * PowerOfTwoMod25((e - 3) % 20)) % 25
  IN  dropped \in 1 .. 12

\* parseFloat(theta.toFixed(2)), in hundredths.  toFixed takes the hundredth
\* nearest the exact value of the double, the larger magnitude on a tie: a theta
\* that is an odd number of two-hundredths goes down when its double lies below
\* it (0.015 gives 0.01) and up otherwise (0.025 gives 0.03, 0.125 gives 0.13).
ToFixed2(theta) ==
  LET hundredth == ONE \div 100
      half == ONE \div 200
      whole == Abs(theta) \div hundredth
      rest == Abs(theta) % hundredth
      n == IF rest > half \/ (rest = half /\ ~DoubleBelow(Abs(theta) \div half))
           THEN whole + 1
           ELSE whole
  IN  IF theta < 0 THEN -n ELSE n

\* DichotomyResult with the reported theta given the sign of the letter: a
\* flipped result reports -theta.
DichotomyResultSignedByLetter(dichotomy, theta) ==
  LET pci == Pci(theta)
      sign == SignPreference(dichotomy, theta)
      preference == MidpointAdjustment(dichotomy, sign, pci)
  IN  [ preference    |-> preference,
        pci           |-> pci,
        pcc           |-> getPccCategory(pci),
        theta         |-> IF preference = sign THEN ToFixed2(theta) ELSE -ToFixed2(theta),
        dichotomyName |-> dichotomy ]

\* The result object assembled for one dichotomy from its estimate.
DichotomyResult(dichotomy, theta) ==
  LET pci == Pci(theta)
  IN  [ preference    |-> MidpointAdjustment(dichotomy, SignPreference(dichotomy, theta), pci),
        pci           |-> pci,
        pcc           |-> getPccCategory(pci),
        theta         |-> ToFixed2(theta),
        dichotomyName |-> dichotomy ]

\* calculateResults as a function of its arguments and the dichotomy index: the
\* dichotomyResults it may return, one result per dichotomy, each assembled from
\* an estimate findBestThetaForDichotomy may return.
calculateResults(answers, index) ==
  LET outcomes == [ d \in DOMAIN DICHOTOMY_CONFIG |->
                      { DichotomyResult(d, t) :
                          t \in findBestThetaForDichotomy(d, answers, index) } ]
  IN  { results \in [ DOMAIN DICHOTOMY_CONFIG -> UNION { outcomes[d] : d \in DOMAIN outcomes } ] :
          \A d \in DOMAIN outcomes : results[d] \in outcomes[d] }

\* ------------------------------------------------------------------------
\* Answer sets handed to the engine
\* ------------------------------------------------------------------------

\* Most answers of a sparse answer set.
MaxAnswered == 3

\* The items a sparse answer set may answer: two of each dichotomy.
Pool == { 2, 41, 1, 8, 5, 86, 11, 58 }

Choices == { "A", "B" }

\* The answer sets over at most MaxAnswered items of the pool, keyed item + 1.
SparseAnswerSets ==
  UNION { { [ key \in K |-> [ questionIndex |-> key - 1, choice |-> c[key] ] ] :
              c \in [ K -> Choices ] } :
          K \in { X \in SUBSET { q + 1 : q \in Pool } : Cardinality(X) <= MaxAnswered } }

\* The option of question q keyed to pole u.
ChoiceFor(q, u) == CHOOSE c \in Choices : MBTI_Form_M[q].options[c].scoreKey = u

\* Every item of dichotomy d answered: the first n of them (in index order) with
\* the positive-pole option, the others with the negative-pole option.
Staircase(d, n) ==
  LET qs == BuildDichotomyToQuestionMap[d]
  IN  [ key \in { qs[i] + 1 : i \in 1 .. Len(qs) } |->
          LET i == CHOOSE j \in 1 .. Len(qs) : qs[j] + 1 = key
          IN  [ questionIndex |-> key - 1,
                choice |-> ChoiceFor(key - 1, IF i <= n THEN 1 ELSE 0) ] ]

StaircaseAnswerSets ==
  UNION { { Staircase(d, n) : n \in 0 .. Len(BuildDichotomyToQuestionMap[d]) } :
          d \in DOMAIN DICHOTOMY_CONFIG }

\* Two J-P items answered toward opposite poles whose estimate is just above 0
\* (0.0014): item 58 toward J, item 92 toward P.
NearZeroAnswerSets ==
  { [ key \in { 59, 93 } |->
        [ questionIndex |-> key - 1,
          choice |-> ChoiceFor(key - 1, IF key = 59 THEN 1 ELSE 0) ] ] }

\* Two items of one dichotomy answered toward opposite poles whose estimate
\* lies just below a multiple of 0.05 that is not a multiple of 0.1: T-F items
\* 55 (toward T) and 57 (toward F) give 0.5475, J-P items 58 (toward J) and 27
\* (toward P) give -0.1472.
RoundingAnswerSets ==
  { [ key \in { 56, 58 } |->
        [ questionIndex |-> key - 1,
          choice |-> ChoiceFor(key - 1, IF key = 56 THEN 1 ELSE 0) ] ],
    [ key \in { 28, 59 } |->
        [ questionIndex |-> key - 1,
          choice |-> ChoiceFor(key - 1, IF key = 59 THEN 1 ELSE 0) ] ] }

\* The answer set that answers the keys of c (item + 1) with the options c gives.
Recorded(c) == [ key \in DOMAIN c |-> [ questionIndex |-> key - 1, choice |-> c[key] ] ]

\* Answer sets on which the doubles decide what the units here leave open.  The
\* first two put the change of the third pass within 2 * 10^-7 of the tolerance:
\* the code leaves the loop after 3 passes on the first (change 0.0000998) and
\* after 4 on the second (change 0.00010004).  The others answer two items of
\* equal a toward opposite poles, which puts the estimate on the mean of their b:
\* -0.325 (the code returns -0.32500000000000007 and reports -0.33), 0.305
\* (reported 0.3), -0.005 (the code returns -0.004999999999999998 and reports 0)
\* and 0.85 (the code returns 0.8500000000000001, pci 9).
BoundaryAnswerSets ==
  { Recorded(12 :> "A" @@ 36 :> "B" @@ 80 :> "B"),
    Recorded(7 :> "A" @@ 68 :> "A" @@ 77 :> "A"),
    Recorded(51 :> "A" @@ 61 :> "B"),
    Recorded(42 :> "B" @@ 91 :> "B"),
    Recorded(8 :> "A" @@ 28 :> "B"),
    Recorded(2 :> "A" @@ 60 :> "B") }

AnswerSets ==
  SparseAnswerSets \cup StaircaseAnswerSets \cup NearZeroAnswerSets
    \cup RoundingAnswerSets \cup BoundaryAnswerSets

NoAnswers == [ key \in {} |-> NULL ]

NoResults == [ d \in {} |-> NULL ]

\* allQuestions = [], the catalogue before it is fetched.
NoQuestions == [ q \in {} |-> NULL ]

NoEstimates == [ d \in {} |-> 0 ]

\* The answer sets of the repeated calls: those over items 2 and 41 (E-I) and
\* item 11 (J-P), the J-P item answered, absent, or present with the value null,
\* and two of the answer sets on which the doubles decide the outcome.
RepeatAnswerSets ==
  LET sets == { a \in SparseAnswerSets : DOMAIN a \subseteq { 3, 42, 12 } }
  IN  sets \cup { [ key \in DOMAIN a \cup { 12 } |-> IF key = 12 THEN NULL ELSE a[key] ] :
                    a \in { x \in sets : 12 \notin DOMAIN x } }
           \cup { Recorded(42 :> "B" @@ 91 :> "B"),
                  Recorded(7 :> "A" @@ 68 :> "A" @@ 77 :> "A") }

\* Spacing of the estimates handed to the preference resolver, in units.
GridStep == 50000

\* Estimates over [-3, 3]: the multiples of GridStep and their two neighbours,
\* which puts every rounding boundary of the clarity index and the values one
\* unit to either side of it on the grid.
ThetaGrid ==
  { t \in { k * GridStep + e : k \in -((3 * ONE) \div GridStep) .. ((3 * ONE) \div GridStep),
                               e \in { -1, 0, 1 } } :
      Abs(t) <= 3 * ONE }

\* ------------------------------------------------------------------------
\* State
\* ------------------------------------------------------------------------

VARIABLES
  dichotomyToQuestionMap,  \* the module-level index, dichotomy -> item indices
  pc,                      \* "idle", "estimate", "newton", "resolve", "done"
  answers,                 \* the answer set of the call in progress
  dIdx,                    \* position of the loop of calculateResults in DichotomyOrder
  items,                   \* findBestThetaForDichotomy: the keyed responses
  theta,                   \* findBestThetaForDichotomy: the estimate
  iter,                    \* findBestThetaForDichotomy: the loop counter
  dichotomyResults,        \* calculateResults: the results assembled so far
  estimates,               \* history: what findBestThetaForDichotomy returned in this call
  passes,                  \* history: the value of i at which each solve of this call left the loop
  seen,                    \* history: the arguments and results of an earlier call
  calls,                   \* interleaved invocations: respondent -> the locals of its call
  allQuestions,            \* app.js: the catalogue fetched from questions.json
  currentQuestionIndex,    \* app.js
  userAnswers,             \* app.js: position -> null or { questionIndex, choice }
  reportedType,            \* app.js: the dichotomyResults of the last scoring
  screen,                  \* app.js: the active screen
  shown,                   \* DOM: the question rendered in questionContainer
  checked,                 \* DOM: the checked radio of the rendered question, or "none"
  pendingTimers,           \* the setTimeout(advanceToNextQuestion, 300) callbacks not yet run
  pendingImports,          \* showResults suspended at await import: their answersForScorer
  previousClicks,          \* history: the number of clicks on Previous
  eventsInDelay,           \* history: the clicks made while a timer or an import is pending
  showResultsCalls,        \* history: the number of calls of showResults
  resultsComputed,         \* history: the number of calls of calculateResults by the host
  displayed,               \* history: the questions showQuestion has rendered
  bestFitType,             \* app.js: dichotomy -> the letter settled for it
  currentVerificationIndex, \* app.js: position in dichotomiesToVerify, from 0
  dichotomiesToVerify,     \* app.js: the dichotomies verification asks about
  finalPayload,            \* app.js: what showFinalResults assembled
  verificationOptions,     \* DOM: the data-choice of the rendered "This is me" buttons
  asked,                   \* history: the dichotomies rendered since the click on Verify
  chosen,                  \* history: dichotomy -> the pole clicked since the click on Verify
  showFinalResultsCalls,   \* history: the number of calls of showFinalResults
  savedPayloads,           \* history: the payloads handed to saveResultsToDatabase
  offScreenClicks,         \* history: the clicks on controls of a screen that was not active
  quizStarts               \* history: the number of calls of startQuiz

\* The variables of one invocation running on its own.
engineVars == << dichotomyToQuestionMap, pc, answers, dIdx, items, theta, iter,
                 dichotomyResults, estimates, passes, seen >>

\* The variables of the interleaved invocations.
interleavedVars == << calls >>

\* The variables of the verification of the slight preferences.
verificationVars == << bestFitType, currentVerificationIndex, dichotomiesToVerify,
                       finalPayload, verificationOptions, asked, chosen,
                       showFinalResultsCalls, savedPayloads >>

\* The variables of the host page.
hostVars == << allQuestions, currentQuestionIndex, userAnswers, reportedType, screen,
               shown, checked, pendingTimers, pendingImports, previousClicks,
               eventsInDelay, showResultsCalls, resultsComputed, displayed,
               verificationVars, offScreenClicks, quizStarts >>

vars == << engineVars, interleavedVars, hostVars >>

dichotomy == DichotomyOrder[dIdx]

NotSeen == [ called |-> FALSE ]

\* The respondents whose invocations are interleaved.
Respondents == { "r1", "r2" }

\* The locals of an invocation that has not started; given is the history of the
\* answer set the invocation was handed.
IdleCall ==
  [ pc |-> "idle", answers |-> NoAnswers, given |-> NoAnswers, dIdx |-> 1,
    items |-> << >>, theta |-> 0, iter |-> 0, dichotomyResults |-> NoResults ]

\* The page after DOMContentLoaded: nothing fetched yet, the welcome screen active.
HostInit ==
  /\ allQuestions = NoQuestions
  /\ currentQuestionIndex = 0
  /\ userAnswers = NoAnswers
  /\ reportedType = NoResults
  /\ screen = "welcome"
  /\ shown = -1
  /\ checked = "none"
  /\ pendingTimers = 0
  /\ pendingImports = << >>
  /\ previousClicks = 0
  /\ eventsInDelay = 0
  /\ showResultsCalls = 0
  /\ resultsComputed = 0
  /\ displayed = {}
  /\ bestFitType = NoResults
  /\ currentVerificationIndex = 0
  /\ dichotomiesToVerify = << >>
  /\ finalPayload = NoResults
  /\ verificationOptions = << >>
  /\ asked = << >>
  /\ chosen = NoResults
  /\ showFinalResultsCalls = 0
  /\ savedPayloads = << >>
  /\ offScreenClicks = 0
  /\ quizStarts = 0

Init ==
  /\ dichotomyToQuestionMap = BuildDichotomyToQuestionMap
  /\ pc = "idle"
  /\ answers = NoAnswers
  /\ dIdx = 1
  /\ items = << >>
  /\ theta = 0
  /\ iter = 0
  /\ dichotomyResults = NoResults
  /\ estimates = NoEstimates
  /\ passes = NoEstimates
  /\ seen = NotSeen
  /\ calls = [ r \in Respondents |-> IdleCall ]
  /\ HostInit

\* The host calls calculateResults(a, allQuestions).
Call(a) ==
  /\ pc = "idle"
  /\ answers' = a
  /\ dIdx' = 1
  /\ dichotomyResults' = NoResults
  /\ estimates' = NoEstimates
  /\ passes' = NoEstimates
  /\ pc' = "estimate"
  /\ UNCHANGED << interleavedVars, hostVars, dichotomyToQuestionMap, items, theta, iter, seen >>

\* Estimate filtering the shared list of the dichotomy in place: the index keeps
\* only the items answered in this call.
EstimateInPlace ==
  /\ pc = "estimate"
  /\ items' = KeyedItems(dichotomy, answers, dichotomyToQuestionMap)
  /\ dichotomyToQuestionMap' =
       [ dichotomyToQuestionMap EXCEPT
           ![dichotomy] = SelectSeq(@, LAMBDA qIndex : Answered(answers, qIndex + 1)) ]
  /\ theta' = 0
  /\ iter' = 0
  /\ pc' = IF Len(items') = 0 THEN "resolve" ELSE "newton"
  /\ UNCHANGED << interleavedVars, hostVars, answers, dIdx, dichotomyResults, estimates, passes, seen >>

\* findBestThetaForDichotomy up to the loop: the answered items, the early return
\* of 0 when there are none, the initial estimate.
Estimate ==
  /\ pc = "estimate"
  /\ items' = KeyedItems(dichotomy, answers, dichotomyToQuestionMap)
  /\ theta' = 0
  /\ iter' = 0
  /\ pc' = IF Len(items') = 0 THEN "resolve" ELSE "newton"
  /\ UNCHANGED << interleavedVars, hostVars, dichotomyToQuestionMap, answers, dIdx, dichotomyResults, estimates, passes, seen >>

\* NewtonStep as a loop with no exit: neither the break nor the iteration limit.
NewtonStepNoExit ==
  /\ pc = "newton"
  /\ theta' = NewtonIteration(items, theta).theta
  /\ iter' = iter + 1
  /\ pc' = "newton"
  /\ UNCHANGED << interleavedVars, hostVars, dichotomyToQuestionMap, answers, dIdx, items, dichotomyResults,
                  estimates, passes, seen >>

\* The solve under way is on the items of a solve of the remembered call.
SolvedBefore ==
  /\ seen.called
  /\ dichotomy \in DOMAIN seen.passes
  /\ items = KeyedItems(dichotomy, seen.answers, dichotomyToQuestionMap)

\* The doubles of a solve are a function of its items: where this model leaves
\* the outcome of a pass open, a solve on the items of a remembered solve takes
\* the course that solve took, leaving the loop at the same i with the same theta.
AsBefore(exit, nextIter, nextTheta) ==
  SolvedBefore =>
    IF exit
    THEN nextIter = seen.passes[dichotomy] /\ nextTheta = seen.estimates[dichotomy]
    ELSE nextIter <= seen.passes[dichotomy]

\* One iteration of the Newton-Raphson loop, and the loop's exit test.
NewtonStep ==
  /\ pc = "newton"
  /\ LET r == NewtonIteration(items, theta)
     IN  \E break \in r.break :
           LET exit == break \/ iter + 1 >= maxIterations
           IN  /\ theta' \in (IF exit THEN Returned(r.theta) ELSE { r.theta })
               /\ iter' = IF break THEN iter ELSE iter + 1
               /\ pc' = IF exit THEN "resolve" ELSE "newton"
               /\ AsBefore(exit, iter', theta')
  /\ UNCHANGED << interleavedVars, hostVars, dichotomyToQuestionMap, answers, dIdx, items, dichotomyResults,
                  estimates, passes, seen >>

\* Steps 1 to 4 of the loop body of calculateResults for the estimate returned,
\* and the move to the next dichotomy.
Resolve ==
  /\ pc = "resolve"
  /\ dichotomyResults' =
       [ d \in DOMAIN dichotomyResults \cup { dichotomy } |->
           IF d = dichotomy THEN DichotomyResult(dichotomy, theta) ELSE dichotomyResults[d] ]
  /\ estimates' =
       [ d \in DOMAIN estimates \cup { dichotomy } |->
           IF d = dichotomy THEN theta ELSE estimates[d] ]
  /\ passes' =
       [ d \in DOMAIN passes \cup { dichotomy } |->
           IF d = dichotomy THEN iter ELSE passes[d] ]
  /\ IF dIdx < Len(DichotomyOrder)
     THEN dIdx' = dIdx + 1 /\ pc' = "estimate"
     ELSE dIdx' = dIdx /\ pc' = "done"
  /\ items' = << >>
  /\ theta' = 0
  /\ iter' = 0
  /\ UNCHANGED << interleavedVars, hostVars, dichotomyToQuestionMap, answers, seen >>

\* calculateResults returns { dichotomyResults }.
Return ==
  /\ pc = "done"
  /\ pc' = "idle"
  /\ answers' = NoAnswers
  /\ dichotomyResults' = NoResults
  /\ estimates' = NoEstimates
  /\ passes' = NoEstimates
  /\ dIdx' = 1
  /\ UNCHANGED << interleavedVars, hostVars, dichotomyToQuestionMap, items, theta, iter, seen >>

\* The host keeps the arguments and the results of the call that has finished.
Remember ==
  /\ pc = "done"
  /\ seen' = [ called |-> TRUE, answers |-> answers,
               dichotomyResults |-> dichotomyResults, estimates |-> estimates,
               passes |-> passes ]
  /\ UNCHANGED << interleavedVars, hostVars, dichotomyToQuestionMap, pc, answers, dIdx, items, theta, iter,
                  dichotomyResults, estimates, passes >>

Next ==
  \/ \E a \in AnswerSets : Call(a)
  \/ Estimate
  \/ NewtonStep
  \/ Resolve
  \/ Return

\* One call after another, each on an answer set of AnswerSets.
Spec == Init /\ [][Next]_vars

\* The same calls with the engine's synchronous code running on: once entered,
\* findBestThetaForDichotomy and the loop of calculateResults are not suspended.
\* This is weak fairness of NewtonStep, WF_vars(NewtonStep), with
\* ENABLED <<NewtonStep>>_vars written as the state predicate it equals: the
\* action is enabled exactly when pc = "newton", and it always changes pc or iter.
SpecFair ==
  Spec /\ ([]<>(pc # "newton") \/ []<><<NewtonStep>>_vars)

\* Repeated calls on a small family of answer sets, the host remembering the
\* outcome of an earlier call.
NextRepeat ==
  \/ \E a \in RepeatAnswerSets : Call(a)
  \/ Estimate
  \/ NewtonStep
  \/ Resolve
  \/ Remember
  \/ Return

SpecRepeat == Init /\ [][NextRepeat]_vars

\* The preference resolver entered for any dichotomy with any estimate of the grid.
InitResolver ==
  /\ dichotomyToQuestionMap = BuildDichotomyToQuestionMap
  /\ pc = "resolve"
  /\ answers = NoAnswers
  /\ dIdx \in 1 .. Len(DichotomyOrder)
  /\ items = << >>
  /\ theta \in ThetaGrid
  /\ iter = 0
  /\ dichotomyResults = NoResults
  /\ estimates = NoEstimates
  /\ passes = NoEstimates
  /\ seen = NotSeen
  /\ calls = [ r \in Respondents |-> IdleCall ]
  /\ HostInit

NextResolver == Resolve

SpecResolver == InitResolver /\ [][NextResolver]_vars

\* ------------------------------------------------------------------------
\* Interleaved invocations: several respondents scored at once by a host, each
\* invocation with its own locals, all of them reading the module-level index
\* ------------------------------------------------------------------------

\* The answer sets of the interleaved invocations: those over item 2 (E-I) and
\* item 11 (J-P).
InterleavedAnswerSets == { a \in SparseAnswerSets : DOMAIN a \subseteq { 3, 12 } }

\* The host calls calculateResults(a, allQuestions) for respondent r.
CallFor(r, a) ==
  /\ calls[r].pc = "idle"
  /\ calls' = [ calls EXCEPT ![r] =
                  [ IdleCall EXCEPT !.pc = "estimate", !.answers = a, !.given = a ] ]
  /\ UNCHANGED << engineVars, hostVars >>

\* EstimateFor filtering the shared list of the dichotomy in place.
EstimateForInPlace(r) ==
  LET c == calls[r]
      d == DichotomyOrder[c.dIdx]
      its == KeyedItems(d, c.answers, dichotomyToQuestionMap)
  IN  /\ c.pc = "estimate"
      /\ calls' = [ calls EXCEPT ![r] =
                      [ c EXCEPT !.items = its, !.theta = 0, !.iter = 0,
                                 !.pc = IF Len(its) = 0 THEN "resolve" ELSE "newton" ] ]
      /\ dichotomyToQuestionMap' =
           [ dichotomyToQuestionMap EXCEPT
               ![d] = SelectSeq(@, LAMBDA qIndex : Answered(c.answers, qIndex + 1)) ]
      /\ UNCHANGED << pc, answers, dIdx, items, theta, iter, dichotomyResults,
                      estimates, passes, seen, hostVars >>

\* findBestThetaForDichotomy up to the loop, in the invocation of respondent r.
EstimateFor(r) ==
  LET c == calls[r]
      its == KeyedItems(DichotomyOrder[c.dIdx], c.answers, dichotomyToQuestionMap)
  IN  /\ c.pc = "estimate"
      /\ calls' = [ calls EXCEPT ![r] =
                      [ c EXCEPT !.items = its, !.theta = 0, !.iter = 0,
                                 !.pc = IF Len(its) = 0 THEN "resolve" ELSE "newton" ] ]
      /\ UNCHANGED << engineVars, hostVars >>

\* One iteration of the Newton-Raphson loop in the invocation of respondent r.
NewtonStepFor(r) ==
  LET c == calls[r]
      n == NewtonIteration(c.items, c.theta)
  IN  /\ c.pc = "newton"
      /\ \E break \in n.break :
           LET exit == break \/ c.iter + 1 >= maxIterations
           IN  \E t \in (IF exit THEN Returned(n.theta) ELSE { n.theta }) :
                 calls' = [ calls EXCEPT ![r] =
                              [ c EXCEPT !.theta = t,
                                         !.iter = IF break THEN c.iter ELSE c.iter + 1,
                                         !.pc = IF exit THEN "resolve" ELSE "newton" ] ]
      /\ UNCHANGED << engineVars, hostVars >>

\* Steps 1 to 4 of the loop body of calculateResults in the invocation of r.
ResolveFor(r) ==
  LET c == calls[r]
      d == DichotomyOrder[c.dIdx]
      last == c.dIdx >= Len(DichotomyOrder)
  IN  /\ c.pc = "resolve"
      /\ calls' = [ calls EXCEPT ![r] =
                      [ c EXCEPT !.dichotomyResults =
                                   [ x \in DOMAIN c.dichotomyResults \cup { d } |->
                                       IF x = d THEN DichotomyResult(d, c.theta)
                                       ELSE c.dichotomyResults[x] ],
                                 !.dIdx = IF last THEN c.dIdx ELSE c.dIdx + 1,
                                 !.pc = IF last THEN "done" ELSE "estimate",
                                 !.items = << >>, !.theta = 0, !.iter = 0 ] ]
      /\ UNCHANGED << engineVars, hostVars >>

\* calculateResults returns to the host in the invocation of respondent r.
ReturnFor(r) ==
  /\ calls[r].pc = "done"
  /\ calls' = [ calls EXCEPT ![r] = IdleCall ]
  /\ UNCHANGED << engineVars, hostVars >>

NextInterleaved ==
  \E r \in Respondents :
    \/ \E a \in InterleavedAnswerSets : CallFor(r, a)
    \/ EstimateFor(r)
    \/ NewtonStepFor(r)
    \/ ResolveFor(r)
    \/ ReturnFor(r)

\* The invocations of the respondents interleaved step by step in any order.
SpecInterleaved == Init /\ [][NextInterleaved]_vars

\* ------------------------------------------------------------------------
\* Calls by a host that does not check its answers against the item table
\* ------------------------------------------------------------------------

\* Answer sets over item 2 (E-I), item 11 (J-P) and index 93, for which the item
\* parameter table has no entry.
ForeignAnswerSets ==
  UNION { { [ key \in K |-> [ questionIndex |-> key - 1, choice |-> c[key] ] ] :
              c \in [ K -> Choices ] } :
          K \in SUBSET { 3, 12, 94 } }

NextForeign ==
  \/ \E a \in ForeignAnswerSets : Call(a)
  \/ Estimate
  \/ NewtonStep
  \/ Resolve
  \/ Return

SpecForeign == Init /\ [][NextForeign]_vars

\* ------------------------------------------------------------------------
\* The host page (src/app.js): the quiz, its timers and the call of the engine
\* ------------------------------------------------------------------------

\* Most clicks on Previous in one run of the quiz.
MaxPrevious == 1

\* Most setTimeout callbacks outstanding at once.
MaxPendingTimers == 1

\* Most calls of showResults suspended at their await at once.
MaxPendingImports == 1

\* Most clicks the respondent makes while a timer (300 ms) or the import of the
\* scorer is pending.
MaxEventsInDelay == 2

\* Most clicks dispatched on a control of a screen that is not the active one,
\* between two loads of the page.
MaxOffScreenClicks == 1

\* Most runs of startQuiz between two loads of the page.
MaxQuizStarts == 1

\* The questions whose radios the respondent uses; every other question is
\* passed with Skip or by a timer.
Attended == { 0, 91, 92 }

\* allQuestions.length.
Length(array) == Cardinality(DOMAIN array)

\* array[i] = value, on a sparse array.
Store(array, i, value) ==
  [ j \in DOMAIN array \cup { i } |-> IF j = i THEN value ELSE array[j] ]

\* The truthy entries of userAnswers.
Truthy(array, i) == i \in DOMAIN array /\ array[i] # NULL

\* answersForScorer keyed by index where the code keys by index + 1.
AnswersForScorerZeroBased(array) ==
  [ key \in { i \in DOMAIN array : Truthy(array, i) } |-> array[key] ]

\* showResults: answersForScorer[index + 1] = answer for every truthy answer.
AnswersForScorer(array) ==
  [ key \in { i + 1 : i \in { j \in DOMAIN array : Truthy(array, j) } } |-> array[key - 1] ]

\* showQuestion(): the question at index i is rendered, the radio of its saved
\* answer (read from array) checked.  With no question at index i the read of
\* question.part throws and nothing is rendered.
ShowQuestion(i, array) ==
  IF i \in DOMAIN allQuestions
  THEN /\ shown' = i
       /\ checked' = IF Truthy(array, i) /\ array[i].choice \in DOMAIN allQuestions[i].options
                     THEN array[i].choice ELSE "none"
       /\ displayed' = displayed \cup { i }
  ELSE UNCHANGED << shown, checked, displayed >>

\* showResults() up to its await: answersForScorer is built from array and the
\* import of the scorer is awaited.
ShowResults(array) ==
  /\ Len(pendingImports) < MaxPendingImports
  /\ showResultsCalls' = showResultsCalls + 1
  /\ pendingImports' = Append(pendingImports, AnswersForScorer(array))

\* advanceToNextQuestion(), userAnswers being array.
AdvanceToNextQuestion(array) ==
  /\ currentQuestionIndex' = currentQuestionIndex + 1
  /\ IF currentQuestionIndex + 1 < Length(allQuestions)
     THEN ShowQuestion(currentQuestionIndex + 1, array)
          /\ UNCHANGED << showResultsCalls, pendingImports >>
     ELSE ShowResults(array)
          /\ UNCHANGED << shown, checked, displayed >>

\* The keys of screens.
Screens == { "welcome", "preferenceSkill", "quiz", "results", "verification",
             "final", "survey", "thankYou" }

\* A timer or an import of the scorer is pending.
InDelay == pendingTimers > 0 \/ pendingImports # << >>

\* A click is dispatched on a control of screen s.  The listeners stay attached
\* whatever screen switchScreen has made the active one and no handler reads
\* which screen is active, so the handler runs whether s is active or not.  The
\* click is counted when it falls into a delay, and when s is not active.
ScreenClick(s) ==
  /\ s \in Screens
  /\ InDelay => eventsInDelay < MaxEventsInDelay
  /\ eventsInDelay' = IF InDelay THEN eventsInDelay + 1 ELSE 0
  /\ screen # s => offScreenClicks < MaxOffScreenClicks
  /\ offScreenClicks' = IF screen # s THEN offScreenClicks + 1 ELSE offScreenClicks

\* A click is dispatched on a control of the quiz.
QuizClick == ScreenClick("quiz")

\* A pending callback has run: the count of clicks starts anew once nothing is
\* pending.
DelayOver == eventsInDelay' = IF pendingTimers' > 0 \/ pendingImports' # << >>
                             THEN eventsInDelay ELSE 0

\* fetch('./questions.json') resolves.
QuestionsLoaded ==
  /\ allQuestions = NoQuestions
  /\ allQuestions' = MBTI_Form_M
  /\ userAnswers' = [ i \in DOMAIN MBTI_Form_M |-> NULL ]
  /\ UNCHANGED << engineVars, interleavedVars, quizStarts, verificationVars, offScreenClicks, currentQuestionIndex, reportedType,
                  screen, shown, checked, pendingTimers, pendingImports,
                  previousClicks, eventsInDelay, showResultsCalls, resultsComputed, displayed >>

\* Click on Start (the button is disabled until the questions are loaded).
StartPreferenceExplanation ==
  /\ ScreenClick("welcome")
  /\ allQuestions # NoQuestions
  /\ screen' = "preferenceSkill"
  /\ UNCHANGED << engineVars, interleavedVars, quizStarts, verificationVars, allQuestions, currentQuestionIndex,
                  userAnswers, reportedType, shown, checked, pendingTimers,
                  pendingImports, previousClicks, showResultsCalls, resultsComputed,
                  displayed >>

\* Click on Continue: startQuiz().  With no question loaded showQuestion throws
\* and the quiz screen is not activated.
StartQuiz ==
  /\ ScreenClick("preferenceSkill")
  /\ quizStarts < MaxQuizStarts
  /\ quizStarts' = quizStarts + 1
  /\ currentQuestionIndex' = 0
  /\ ShowQuestion(0, userAnswers)
  /\ screen' = IF 0 \in DOMAIN allQuestions THEN "quiz" ELSE screen
  /\ UNCHANGED << engineVars, interleavedVars, verificationVars, allQuestions, userAnswers, reportedType,
                  pendingTimers, pendingImports, previousClicks, showResultsCalls,
                  resultsComputed >>

\* The change handler of a radio of the rendered question: option c is selected.
SelectOption(c) ==
  /\ QuizClick
  /\ shown \in Attended
  /\ shown \in DOMAIN allQuestions
  /\ c \in DOMAIN allQuestions[shown].options
  /\ checked # c
  /\ checked' = c
  /\ userAnswers' = Store(userAnswers, currentQuestionIndex,
                          [ questionIndex |-> currentQuestionIndex, choice |-> c ])
  /\ IF currentQuestionIndex < Length(allQuestions) - 1
     THEN pendingTimers < MaxPendingTimers /\ pendingTimers' = pendingTimers + 1
     ELSE pendingTimers' = pendingTimers
  /\ UNCHANGED << engineVars, interleavedVars, quizStarts, verificationVars, allQuestions, currentQuestionIndex,
                  reportedType, screen, shown, pendingImports, previousClicks,
                  showResultsCalls, resultsComputed, displayed >>

\* A click on the label of the checked radio, off the radio itself.  The click
\* handler of the label unchecks the radio and sets the answer to null.  The
\* click then activates the label, which clicks its radio: the radio, unchecked
\* by now, is checked again, and its change handler stores the answer again and,
\* unless the last question is current, starts one more timer.  (The click the
\* label sends to the radio has the radio as its target, so the handler of the
\* label leaves the radio checked when that click reaches it.)
DeselectOption ==
  /\ QuizClick
  /\ shown \in Attended
  /\ checked # "none"
  /\ checked' = checked
  /\ LET withdrawn == Store(userAnswers, currentQuestionIndex, NULL)
     IN  userAnswers' = Store(withdrawn, currentQuestionIndex,
                              [ questionIndex |-> currentQuestionIndex, choice |-> checked ])
  /\ IF currentQuestionIndex < Length(allQuestions) - 1
     THEN pendingTimers < MaxPendingTimers /\ pendingTimers' = pendingTimers + 1
     ELSE pendingTimers' = pendingTimers
  /\ UNCHANGED << engineVars, interleavedVars, quizStarts, verificationVars, allQuestions, currentQuestionIndex,
                  reportedType, screen, shown, pendingImports,
                  previousClicks, showResultsCalls, resultsComputed, displayed >>

\* Click on Skip (Finish on the last question): skipQuestion().
SkipQuestion ==
  /\ QuizClick
  /\ IF currentQuestionIndex = Length(allQuestions) - 1
     THEN /\ ShowResults(userAnswers)
          /\ UNCHANGED << userAnswers, currentQuestionIndex, shown, checked, displayed >>
     ELSE /\ userAnswers' = Store(userAnswers, currentQuestionIndex, NULL)
          /\ AdvanceToNextQuestion(userAnswers')
  /\ UNCHANGED << engineVars, interleavedVars, quizStarts, verificationVars, allQuestions, reportedType, screen,
                  pendingTimers, previousClicks, resultsComputed >>

\* Click on Previous (shown unless the first question is current): previousQuestion().
PreviousQuestion ==
  /\ QuizClick
  /\ previousClicks < MaxPrevious
  /\ currentQuestionIndex > 0
  /\ currentQuestionIndex' = currentQuestionIndex - 1
  /\ ShowQuestion(currentQuestionIndex - 1, userAnswers)
  /\ previousClicks' = previousClicks + 1
  /\ UNCHANGED << engineVars, interleavedVars, quizStarts, verificationVars, allQuestions, userAnswers, reportedType,
                  screen, pendingTimers, pendingImports, showResultsCalls,
                  resultsComputed >>

\* A timer set by the change handler runs out: advanceToNextQuestion().
TimerFires ==
  /\ pendingTimers > 0
  /\ pendingTimers' = pendingTimers - 1
  /\ AdvanceToNextQuestion(userAnswers)
  /\ UNCHANGED << engineVars, interleavedVars, quizStarts, verificationVars, offScreenClicks, allQuestions, userAnswers, reportedType,
                  screen, previousClicks, resultsComputed >>
  /\ DelayOver

\* The import awaited by the oldest suspended showResults resolves: the rest of
\* the handler calls calculateResults(answersForScorer, { MBTI_Form_M: allQuestions }),
\* sets reportedType and activates the results screen.
ShowResultsResume ==
  /\ pendingImports # << >>
  /\ reportedType' \in calculateResults(Head(pendingImports), dichotomyToQuestionMap)
  /\ pendingImports' = Tail(pendingImports)
  /\ resultsComputed' = resultsComputed + 1
  /\ screen' = "results"
  /\ UNCHANGED << engineVars, interleavedVars, quizStarts, verificationVars, offScreenClicks, allQuestions, currentQuestionIndex,
                  userAnswers, shown, checked, pendingTimers, previousClicks,
                  showResultsCalls, displayed >>
  /\ DelayOver

\* The letters of the poles.
Letters == { "E", "I", "S", "N", "T", "F", "J", "P" }

\* DICHOTOMY_ORDER.filter(key => results[key].pcc !== 'Slight').
DichotomiesNotSlight(results) ==
  SelectSeq(DichotomyOrder, LAMBDA key : results[key].pcc # "Slight")

\* startVerification: DICHOTOMY_ORDER.filter(key => results[key].pcc === 'Slight').
DichotomiesSlight(results) ==
  SelectSeq(DichotomyOrder, LAMBDA key : results[key].pcc = "Slight")

\* startVerification: bestFitType after the forEach, the reported preference of
\* every dichotomy that is not slight.
ReportedPreferences(results) ==
  [ key \in { d \in DOMAIN results : results[d].pcc # "Slight" } |->
      results[key].preference ]

\* key.split('-').
Split(key) == DICHOTOMY_CONFIG[key].poles

\* Array.prototype.join(''), on one-letter strings: the letters in order, an
\* undefined element giving the empty string.
Join(best) ==
  LET defined == SelectSeq(DichotomyOrder, LAMBDA d : d \in DOMAIN best)
  IN  [ k \in 1 .. Len(defined) |-> best[defined[k]] ]

\* userAnswers.filter(a => a !== null): the non-null entries in index order.
RawAnswers(array) ==
  LET present == { i \in DOMAIN array : array[i] # NULL }
      Below(i) == Cardinality({ j \in present : j < i })
  IN  [ k \in 1 .. Cardinality(present) |->
          array[CHOOSE i \in present : Below(i) = k - 1] ]

\* displayVerificationDichotomy(), the list and the position being those given:
\* the two poles of the dichotomy at the position are rendered.
DisplayVerificationDichotomy(list, index, history) ==
  /\ verificationOptions' = Split(list[index + 1])
  /\ asked' = Append(history, list[index + 1])

\* showFinalResults(), bestFitType being best.
ShowFinalResults(best) ==
  /\ finalPayload' = [ raw_answers   |-> RawAnswers(userAnswers),
                       best_fit_type |-> Join(best),
                       reported_type |-> reportedType ]
  /\ showFinalResultsCalls' = showFinalResultsCalls + 1
  /\ screen' = "final"

\* Click on Verify: startVerification().  Before the first scoring reportedType
\* is {}: bestFitType is emptied and the filter throws on reportedType[key].pcc.
StartVerification ==
  /\ ScreenClick("results")
  /\ IF reportedType = NoResults
     THEN /\ bestFitType' = NoResults
          /\ UNCHANGED << dichotomiesToVerify, chosen, asked, currentVerificationIndex,
                          verificationOptions, finalPayload, showFinalResultsCalls,
                          screen >>
     ELSE /\ bestFitType' = ReportedPreferences(reportedType)
          /\ dichotomiesToVerify' = DichotomiesSlight(reportedType)
          /\ chosen' = NoResults
          /\ IF Len(dichotomiesToVerify') = 0
             THEN /\ ShowFinalResults(bestFitType')
                  /\ asked' = << >>
                  /\ UNCHANGED << currentVerificationIndex, verificationOptions >>
             ELSE /\ currentVerificationIndex' = 0
                  /\ DisplayVerificationDichotomy(dichotomiesToVerify', 0, << >>)
                  /\ screen' = "verification"
                  /\ UNCHANGED << finalPayload, showFinalResultsCalls >>
  /\ UNCHANGED << engineVars, interleavedVars, quizStarts, allQuestions, currentQuestionIndex,
                  userAnswers, reportedType, shown, checked, pendingTimers,
                  pendingImports, previousClicks, showResultsCalls, resultsComputed,
                  displayed, savedPayloads >>

\* Click on the "This is me" button of pole choice: handleVerificationChoice(e).
HandleVerificationChoice(choice) ==
  /\ ScreenClick("verification")
  /\ \E k \in 1 .. Len(verificationOptions) : verificationOptions[k] = choice
  /\ LET dichotomyKey == IF currentVerificationIndex < Len(dichotomiesToVerify)
                         THEN dichotomiesToVerify[currentVerificationIndex + 1]
                         ELSE "undefined"
     IN  /\ bestFitType' = Store(bestFitType, dichotomyKey, choice)
         /\ chosen' = Store(chosen, dichotomyKey, choice)
  /\ currentVerificationIndex' = currentVerificationIndex + 1
  /\ IF currentVerificationIndex' < Len(dichotomiesToVerify)
     THEN /\ DisplayVerificationDichotomy(dichotomiesToVerify, currentVerificationIndex', asked)
          /\ UNCHANGED << finalPayload, showFinalResultsCalls, screen >>
     ELSE /\ ShowFinalResults(bestFitType')
          /\ UNCHANGED << verificationOptions, asked >>
  /\ UNCHANGED << engineVars, interleavedVars, quizStarts, allQuestions, currentQuestionIndex,
                  userAnswers, reportedType, shown, checked, pendingTimers,
                  pendingImports, previousClicks, showResultsCalls, resultsComputed,
                  displayed, dichotomiesToVerify, savedPayloads >>

\* Click on Continue of the final screen: switchScreen(screens.survey).
ContinueToSurvey ==
  /\ ScreenClick("final")
  /\ screen' = "survey"
  /\ UNCHANGED << engineVars, interleavedVars, quizStarts, verificationVars, allQuestions,
                  currentQuestionIndex, userAnswers, reportedType, shown, checked,
                  pendingTimers, pendingImports, previousClicks, showResultsCalls,
                  resultsComputed, displayed >>

\* The forms submitted: what FormData.get returns for the e-mail field ("" when
\* it is left empty) and for the two pairs of radios valued "true" and "false"
\* ("unset" standing for the null it returns when neither radio is checked).
SurveyForms == { << "", "unset", "unset" >>,
                 << "respondent@example.org", "true", "false" >> }

\* The form of the survey is submitted: handleSurveySubmission().  The fields of
\* the form are added to finalPayload, which is handed to saveResultsToDatabase
\* (it posts JSON.stringify(payload), taken before the function first awaits).
HandleSurveySubmission(email, enjoys_frameworks, wants_in_schools) ==
  /\ ScreenClick("survey")
  /\ finalPayload' =
       [ email             |-> IF email = "" THEN NULL ELSE email,
         enjoys_frameworks |-> enjoys_frameworks = "true",
         wants_in_schools  |-> wants_in_schools = "true" ] @@ finalPayload
  /\ savedPayloads' = Append(savedPayloads, finalPayload')
  /\ screen' = "thankYou"
  /\ UNCHANGED << engineVars, interleavedVars, quizStarts, allQuestions, currentQuestionIndex,
                  userAnswers, reportedType, shown, checked, pendingTimers,
                  pendingImports, previousClicks, showResultsCalls, resultsComputed,
                  displayed, bestFitType, currentVerificationIndex, dichotomiesToVerify,
                  verificationOptions, asked, chosen, showFinalResultsCalls >>

\* Click on Restart: location.reload().  The page is loaded anew: every variable
\* of the page has its initial value again and the pending callbacks are gone.
\* The markup that places the button on a screen is not part of the sources, so
\* the click is possible whatever screen is active.
Restart ==
  /\ allQuestions' = NoQuestions
  /\ currentQuestionIndex' = 0
  /\ userAnswers' = NoAnswers
  /\ reportedType' = NoResults
  /\ screen' = "welcome"
  /\ shown' = -1
  /\ checked' = "none"
  /\ pendingTimers' = 0
  /\ pendingImports' = << >>
  /\ previousClicks' = 0
  /\ eventsInDelay' = 0
  /\ showResultsCalls' = 0
  /\ resultsComputed' = 0
  /\ displayed' = {}
  /\ bestFitType' = NoResults
  /\ currentVerificationIndex' = 0
  /\ dichotomiesToVerify' = << >>
  /\ finalPayload' = NoResults
  /\ verificationOptions' = << >>
  /\ asked' = << >>
  /\ chosen' = NoResults
  /\ showFinalResultsCalls' = 0
  /\ savedPayloads' = << >>
  /\ offScreenClicks' = 0
  /\ quizStarts' = 0
  /\ UNCHANGED << engineVars, interleavedVars >>

NextHost ==
  \/ QuestionsLoaded
  \/ StartPreferenceExplanation
  \/ StartQuiz
  \/ \E c \in Choices : SelectOption(c)
  \/ DeselectOption
  \/ SkipQuestion
  \/ PreviousQuestion
  \/ TimerFires
  \/ ShowResultsResume
  \/ StartVerification
  \/ \E choice \in Letters : HandleVerificationChoice(choice)
  \/ ContinueToSurvey
  \/ \E form \in SurveyForms : HandleSurveySubmission(form[1], form[2], form[3])
  \/ Restart

\* The page from its load to the thank-you screen, and its reloads.
SpecHost == Init /\ [][NextHost]_vars

\* ------------------------------------------------------------------------
\* Properties
\* ------------------------------------------------------------------------

InRange(t) == -3 * ONE <= t /\ t <= 3 * ONE

\* The items of dichotomy d, from the item table.
ItemsOfDichotomy(d) == { q \in DOMAIN itemParameters : itemParameters[q].dichotomy = d }

\* The answered items of dichotomy d in answer set a.
AnsweredOf(a, d) == { q \in ItemsOfDichotomy(d) : Answered(a, q + 1) }

\* The scored direction u of the answer of a to item q.
KeyOf(a, q) == MBTI_Form_M[q].options[a[q + 1].choice].scoreKey

\* C1: the estimate of every dichotomy lies in [-3, 3] after every number of
\* Newton-Raphson iterations (none included), and so does every estimate that
\* findBestThetaForDichotomy returns.
C1_ThetaInRange ==
  /\ InRange(theta)
  /\ \A d \in DOMAIN estimates : InRange(estimates[d])

\* C1 witness: an iteration about to run whose Newton step leaves [-3, 3], so
\* that the clamp decides the next estimate.
C1_ClampActs ==
  /\ pc = "newton"
  /\ LET d == Derivatives(items, theta, 1, 0, 0)
     IN  d[2] # 0 /\ ~InRange(theta - NewtonDelta(d[1], d[2]))

\* C2: when calculateResults has finished, every dichotomy none of whose items
\* is answered has theta 0, pci 1, pcc "Slight" and its tie-breaker letter
\* (I, N, F, P), whatever is answered in the other dichotomies.
C2_UnansweredDichotomy ==
  pc = "done" =>
    \A d \in DOMAIN DICHOTOMY_CONFIG :
      AnsweredOf(answers, d) = {} =>
        /\ estimates[d] = 0
        /\ dichotomyResults[d].theta = 0
        /\ dichotomyResults[d].pci = 1
        /\ dichotomyResults[d].pcc = "Slight"
        /\ dichotomyResults[d].preference = DICHOTOMY_CONFIG[d].tieBreaker
        /\ dichotomyResults[d].preference =
             (CASE d = "E-I" -> "I" [] d = "S-N" -> "N" [] d = "T-F" -> "F" [] d = "J-P" -> "P")

\* C2 witness: a call on the empty answer set has finished with I, N, F, P.
C2_EmptyAnswerSetDone ==
  /\ pc = "done"
  /\ answers = NoAnswers
  /\ \A d \in DOMAIN DICHOTOMY_CONFIG :
       dichotomyResults[d].pci = 1 /\ dichotomyResults[d].preference = DICHOTOMY_CONFIG[d].tieBreaker


\* The two letters of a dichotomy, read from its name.
HighPole(d) == CASE d = "E-I" -> "E" [] d = "S-N" -> "S" [] d = "T-F" -> "T" [] d = "J-P" -> "J"

LowPole(d) == CASE d = "E-I" -> "I" [] d = "S-N" -> "N" [] d = "T-F" -> "F" [] d = "J-P" -> "P"

\* The letter the sign rule gives for estimate t.
SignLetter(d, t) == IF t > 0 THEN HighPole(d) ELSE LowPole(d)

\* C3: the reported preference differs from the sign-rule letter exactly when
\* (S-N, S, pci = 1) or (T-F, T, pci <= 2) or (J-P, J, pci = 1), and is then N, F
\* or P; an E-I result with theta > 0 and pci = 1 is reported as E.
C3_MidpointExact ==
  \A d \in DOMAIN dichotomyResults :
    LET r == dichotomyResults[d]
        sign == SignLetter(d, estimates[d])
    IN  /\ (r.preference # sign) <=>
             \/ d = "S-N" /\ sign = "S" /\ r.pci = 1
             \/ d = "T-F" /\ sign = "T" /\ r.pci <= 2
             \/ d = "J-P" /\ sign = "J" /\ r.pci = 1
        /\ r.preference # sign => r.preference = LowPole(d) /\ d # "E-I"
        /\ d = "E-I" /\ estimates[d] > 0 /\ r.pci = 1 => r.preference = "E"

\* C3 witness: a T-F estimate above 0 with pci 2 has been resolved to F.
C3_ThinkingFlipped ==
  /\ "T-F" \in DOMAIN dichotomyResults
  /\ estimates["T-F"] > 0
  /\ dichotomyResults["T-F"].pci = 2
  /\ dichotomyResults["T-F"].preference = "F"

\* C4: a high-pole letter (E, S, T, J) is reported only for an estimate above 0;
\* an estimate below 0 gives the low-pole letter, an estimate of 0 the tie-breaker,
\* which is the low-pole letter.
C4_HighPoleOnlyAboveZero ==
  \A d \in DOMAIN dichotomyResults :
    LET r == dichotomyResults[d]
        t == estimates[d]
    IN  /\ r.preference \in { HighPole(d), LowPole(d) }
        /\ r.preference = HighPole(d) => t > 0
        /\ t < 0 => r.preference = LowPole(d)
        /\ t = 0 => r.preference = DICHOTOMY_CONFIG[d].tieBreaker
        /\ DICHOTOMY_CONFIG[d].tieBreaker = LowPole(d)

\* C4 witness: an estimate of exactly 0 has been resolved to the tie-breaker.
C4_TieBroken ==
  \E d \in DOMAIN dichotomyResults :
    /\ estimates[d] = 0
    /\ dichotomyResults[d].preference = LowPole(d)

\* C6: for an estimate theta in [-3, 3] the pci is an integer of 1..30, equal to
\* round(x) for the value x of (|theta| / 3) * 30 when that is at least 1
\* (x >= 0.5) and 1 otherwise; n = round(x) is written n - 1/2 <= x < n + 1/2.
C6_PciFormula ==
  \A d \in DOMAIN dichotomyResults :
    LET pci == dichotomyResults[d].pci
        x == rawPciCalculation(estimates[d])
    IN  InRange(estimates[d]) =>
          /\ pci \in 1 .. 30
          /\ 2 * x >= ONE => (2 * pci - 1) * ONE <= 2 * x /\ 2 * x < (2 * pci + 1) * ONE
          /\ 2 * x < ONE => pci = 1

\* C6 witness: an estimate that is not 0 and rounds to 0 has been given pci 1.
C6_FlooredAtOne ==
  \E d \in DOMAIN dichotomyResults :
    /\ estimates[d] # 0
    /\ 20 * Abs(estimates[d]) < ONE
    /\ dichotomyResults[d].pci = 1

\* C7: pcc is "Very Clear" iff pci >= 26, "Clear" iff 16 <= pci <= 25, "Moderate"
\* iff 6 <= pci <= 15 and "Slight" iff pci <= 5, for every pci of 1..30.
C7_PccBoundaries ==
  \A d \in DOMAIN dichotomyResults :
    LET pci == dichotomyResults[d].pci
        pcc == dichotomyResults[d].pcc
    IN  pci \in 1 .. 30 =>
          /\ pcc = "Very Clear" <=> pci >= 26
          /\ pcc = "Clear" <=> 16 <= pci /\ pci <= 25
          /\ pcc = "Moderate" <=> 6 <= pci /\ pci <= 15
          /\ pcc = "Slight" <=> pci <= 5

\* C7 witness: a pci of exactly 26 has been classified.
C7_BoundaryClassified ==
  \E d \in DOMAIN dichotomyResults :
    dichotomyResults[d].pci = 26 /\ dichotomyResults[d].pcc = "Very Clear"


\* Answer set a with the answer to item q replaced by the positive-pole option.
FlipToPositive(a, q) == [ a EXCEPT ![q + 1].choice = ChoiceFor(q, 1) ]

\* The answered items of the dichotomy being estimated whose answer is keyed 0.
NegativeAnswered == { q \in AnsweredOf(answers, dichotomy) : KeyOf(answers, q) = 0 }

\* C5: when the estimator has returned theta for a dichotomy, no estimate it may
\* return for the same answers with one negative-pole answer of that dichotomy
\* changed to the positive-pole option is smaller.
C5_Monotone ==
  pc = "resolve" =>
    \A q \in NegativeAnswered :
      \A raised \in findBestThetaForDichotomy(dichotomy, FlipToPositive(answers, q),
                                              dichotomyToQuestionMap) :
        raised >= theta

\* C5 witness: an estimate strictly inside (-3, 3) has been returned for answers
\* of which one is keyed 0, and changing that answer raises the estimate.
C5_FlipRaises ==
  /\ pc = "resolve"
  /\ Abs(theta) < 3 * ONE
  /\ \E q \in NegativeAnswered :
       \A raised \in findBestThetaForDichotomy(dichotomy, FlipToPositive(answers, q),
                                               dichotomyToQuestionMap) :
         raised > theta

\* Every item of dichotomy d is answered in a with its positive-pole option.
AllPositive(a, d) == \A q \in ItemsOfDichotomy(d) : Answered(a, q + 1) /\ KeyOf(a, q) = 1

\* C8: when every E-I item is answered with the positive-pole option, no
\* iteration lowers the estimate, the estimate returned is the upper bound 3, and
\* the E-I result is E, "Very Clear", with a pci of at least 26.
C8_AllPositiveEI ==
  AllPositive(answers, "E-I") =>
    /\ pc = "newton" /\ dichotomy = "E-I" => NewtonIteration(items, theta).theta >= theta
    /\ pc = "resolve" /\ dichotomy = "E-I" => theta = 3 * ONE
    /\ "E-I" \in DOMAIN dichotomyResults =>
         /\ estimates["E-I"] = 3 * ONE
         /\ dichotomyResults["E-I"].preference = "E"
         /\ dichotomyResults["E-I"].pcc = "Very Clear"
         /\ dichotomyResults["E-I"].pci >= 26

\* C8 witness: a call with every E-I item answered positively has finished.
C8_AllPositiveDone ==
  /\ pc = "done"
  /\ AllPositive(answers, "E-I")
  /\ dichotomyResults["E-I"].pcc = "Very Clear"


\* Answer sets a1 and a2 agree on dichotomy d: each item of d is answered in
\* both with the same answer, or omitted (absent or null) in both.
AgreeOn(a1, a2, d) ==
  \A q \in ItemsOfDichotomy(d) :
    /\ Answered(a1, q + 1) <=> Answered(a2, q + 1)
    /\ Answered(a1, q + 1) => a1[q + 1] = a2[q + 1]

\* C9: a call on the same answer set as an earlier call returns the same
\* preference, pci, pcc, theta and dichotomyName for all four dichotomies (and
\* the same unrounded estimates), whatever calls were made in between.
C9_Deterministic ==
  pc = "done" /\ seen.called /\ DOMAIN seen.answers = DOMAIN answers /\ seen.answers = answers =>
    /\ DOMAIN dichotomyResults = DOMAIN DICHOTOMY_CONFIG
    /\ seen.dichotomyResults = dichotomyResults
    /\ seen.estimates = estimates

\* C9 witness: a call on a non-empty answer set has finished after an earlier
\* call on the same answer set.
C9_SameCallTwice ==
  /\ pc = "done"
  /\ seen.called
  /\ DOMAIN seen.answers = DOMAIN answers
  /\ seen.answers = answers
  /\ AnsweredOf(answers, "E-I") # {}
  /\ AnsweredOf(answers, "J-P") # {}

\* C10: two calls whose answer sets agree on dichotomy d return the same theta,
\* preference, pci and pcc for d (and the same unrounded estimate), however the
\* answer sets differ on the other dichotomies.
C10_DichotomiesIndependent ==
  pc = "done" /\ seen.called =>
    \A d \in DOMAIN DICHOTOMY_CONFIG :
      AgreeOn(seen.answers, answers, d) =>
        /\ seen.dichotomyResults[d].theta = dichotomyResults[d].theta
        /\ seen.dichotomyResults[d].preference = dichotomyResults[d].preference
        /\ seen.dichotomyResults[d].pci = dichotomyResults[d].pci
        /\ seen.dichotomyResults[d].pcc = dichotomyResults[d].pcc
        /\ seen.estimates[d] = estimates[d]

\* C10 witness: two finished calls agree on their (answered) E-I items and differ
\* on J-P, one of them omitting the J-P item by a null entry.
C10_AgreeOnOneDichotomy ==
  /\ pc = "done"
  /\ seen.called
  /\ AnsweredOf(answers, "E-I") # {}
  /\ AgreeOn(seen.answers, answers, "E-I")
  /\ ~AgreeOn(seen.answers, answers, "J-P")
  /\ 12 \in DOMAIN seen.answers /\ ~Answered(seen.answers, 12)


\* ------------------------------------------------------------------------
\* C11: the Newton-Raphson solve terminates within maxIterations iterations
\* ------------------------------------------------------------------------

\* C11: the Newton-Raphson solve of a dichotomy always terminates and performs
\* at most 20 iterations: the loop body is only entered with fewer than 20
\* iterations completed, every pass that stays in the loop counts one more, and
\* a solve that has started reaches the resolver.
C11_NewtonTerminates ==
  /\ [](pc = "newton" => iter < 20)
  /\ [](iter <= 20)
  /\ [][pc = "newton" => pc' \in { "newton", "resolve" }]_vars
  /\ [][pc = "newton" /\ pc' = "newton" => iter' = iter + 1 /\ items' = items]_vars
  /\ ((pc = "newton") ~> (pc = "resolve"))

\* C11 witness: a solve has ended with the iterate held at the upper clamp bound
\* after several passes of the loop.
C11_SolveEndedAtClamp ==
  /\ pc = "resolve"
  /\ Len(items) > 0
  /\ theta = 3 * ONE
  /\ iter >= 2


\* ------------------------------------------------------------------------
\* C12: the dichotomy index partitions the item ids
\* ------------------------------------------------------------------------

\* The dichotomies whose list in the index holds item id q.
ListsHolding(q) ==
  { d \in DOMAIN dichotomyToQuestionMap :
      \E k \in 1 .. Len(dichotomyToQuestionMap[d]) : dichotomyToQuestionMap[d][k] = q }

\* C12: the dichotomy index partitions the item ids 0..92: its keys are exactly
\* E-I, S-N, T-F and J-P, every id is in the list of exactly one of them, every
\* list is non-empty, holds ids of 0..92 only and holds no id twice.
C12_IndexPartitions ==
  /\ DOMAIN dichotomyToQuestionMap = { "E-I", "S-N", "T-F", "J-P" }
  /\ \A q \in 0 .. 92 : Cardinality(ListsHolding(q)) = 1
  /\ \A d \in DOMAIN dichotomyToQuestionMap :
       LET list == dichotomyToQuestionMap[d]
       IN  /\ Len(list) > 0
           /\ \A k \in 1 .. Len(list) : list[k] \in 0 .. 92
           /\ \A j, k \in 1 .. Len(list) : j # k => list[j] # list[k]

\* C12 witness: a call has gone through all four lists of the index, which hold
\* 21, 26, 24 and 22 items.
C12_IndexUsed ==
  /\ pc = "done"
  /\ Len(dichotomyToQuestionMap["E-I"]) = 21
  /\ Len(dichotomyToQuestionMap["S-N"]) = 26
  /\ Len(dichotomyToQuestionMap["T-F"]) = 24
  /\ Len(dichotomyToQuestionMap["J-P"]) = 22


\* ------------------------------------------------------------------------
\* C13: interleaved invocations do not interfere
\* ------------------------------------------------------------------------

\* C13: no invocation of calculateResults changes the dichotomy index or the
\* answer set it was given, and an invocation interleaved in any order with the
\* invocations of other respondents returns the result it returns when run
\* alone on its answer set.
C13_NoInterference ==
  /\ dichotomyToQuestionMap = BuildDichotomyToQuestionMap
  /\ \A r \in Respondents :
       /\ calls[r].answers = calls[r].given
       /\ calls[r].pc = "done" =>
            calls[r].dichotomyResults \in
              calculateResults(calls[r].given, BuildDichotomyToQuestionMap)

\* C13 witness: an invocation that answers item 2 has finished while the
\* invocation of the other respondent, on another answer set, is in its Newton loop.
C13_FinishedBesideRunning ==
  /\ calls["r1"].pc = "done"
  /\ Answered(calls["r1"].given, 3)
  /\ calls["r2"].pc = "newton"
  /\ calls["r2"].given # calls["r1"].given


\* ------------------------------------------------------------------------
\* C15: the midpoint adjustment changes the preference letter only
\* ------------------------------------------------------------------------

\* The result of dichotomy d carries another letter than the sign of its
\* estimate gives: the midpoint adjustment flipped it.
Flipped(d) == dichotomyResults[d].preference # SignLetter(d, estimates[d])

\* The fields other than the letter of the result of d are those computed from
\* the estimate, and the letter is the low pole.
UnflippedFields(d) ==
  /\ dichotomyResults[d].preference = LowPole(d)
  /\ dichotomyResults[d].pci = Max(1, MathRound(rawPciCalculation(estimates[d])))
  /\ dichotomyResults[d].pci \in { 1, 2 }
  /\ dichotomyResults[d].pcc = "Slight"
  /\ dichotomyResults[d].theta = ToFixed2(estimates[d])
  /\ dichotomyResults[d].dichotomyName = d

\* C15 as stated: in a flipped result pci, pcc, theta and dichotomyName are the
\* values computed from the unflipped estimate, and the result carries a
\* low-pole letter together with a positive theta.
C15_FlippedThetaPositive ==
  \A d \in DOMAIN dichotomyResults :
    Flipped(d) => UnflippedFields(d) /\ dichotomyResults[d].theta > 0

\* C15 (amended): in a flipped result pci, pcc, theta and dichotomyName are the
\* values computed from the unflipped estimate, which is positive; the result
\* carries a low-pole letter together with a reported theta that is positive
\* when the estimate is at least 0.005 and is 0 when it is smaller.
C15_FlipChangesLetterOnly ==
  \A d \in DOMAIN dichotomyResults :
    Flipped(d) =>
      /\ UnflippedFields(d)
      /\ estimates[d] > 0
      /\ dichotomyResults[d].theta >= 0
      /\ (dichotomyResults[d].theta > 0 <=> 200 * estimates[d] >= ONE)

\* C15 witness: a call has finished with a flipped result whose reported theta
\* is positive.
C15_FlippedPositiveReported ==
  /\ pc = "done"
  /\ \E d \in DOMAIN dichotomyResults : Flipped(d) /\ dichotomyResults[d].theta > 0


\* ------------------------------------------------------------------------
\* C16: the offset between the host's positions and the engine's keys
\* ------------------------------------------------------------------------

\* What the engine is to score for dichotomy d, read off the host's array: for
\* every answered position q of the dichotomy, in index order, the parameters
\* of item q and the scoreKey of the option chosen among those of question q.
ExpectedItems(d, array) ==
  LET qs == SelectSeq(dichotomyToQuestionMap[d], LAMBDA q : Truthy(array, q))
  IN  [ k \in 1 .. Len(qs) |->
          [ a |-> itemParameters[qs[k]].params.a,
            b |-> itemParameters[qs[k]].params.b,
            u |-> allQuestions[qs[k]].options[array[qs[k]].choice].scoreKey ] ]

\* C16: whenever showResults hands the answers to the engine, the answer the
\* host holds for the question at 0-based position i is passed under key i + 1,
\* and the items the engine builds for every dichotomy are exactly the answered
\* positions of that dichotomy, each with the parameters of its own item and
\* the scoreKey of the chosen option of its own question.
C16_OffsetConsistent ==
  [][ showResultsCalls' > showResultsCalls =>
        LET handed == pendingImports'[Len(pendingImports')]
        IN  /\ \A i \in DOMAIN allQuestions :
                 Truthy(userAnswers', i) =>
                   i + 1 \in DOMAIN handed /\ handed[i + 1] = userAnswers'[i]
            /\ \A d \in DOMAIN DICHOTOMY_CONFIG :
                 KeyedItems(d, handed, dichotomyToQuestionMap) = ExpectedItems(d, userAnswers')
    ]_vars

\* C16 witness: showResults has handed over an answer set in which the first
\* and the last question are answered (keys 1 and 93) and question 91 is not.
C16_FirstAndLastHanded ==
  /\ pendingImports # << >>
  /\ { 1, 93 } \subseteq DOMAIN pendingImports[1]
  /\ 92 \notin DOMAIN pendingImports[1]


\* ------------------------------------------------------------------------
\* C17: an answer that references no item of the table
\* ------------------------------------------------------------------------

\* The keys of answer set a whose answer references an item index for which the
\* item parameter table has no entry.
ForeignKeys(a) == { key \in DOMAIN a : Answered(a, key) /\ (key - 1) \notin DOMAIN itemParameters }

\* C17 as stated: a scoring call whose answer set references an item outside the
\* item parameter table fails; it never returns a result with that answer
\* silently skipped.
C17_ForeignAnswerIsFatal ==
  pc = "done" => ForeignKeys(answers) = {}


\* ------------------------------------------------------------------------
\* C18: the answers the host records
\* ------------------------------------------------------------------------

\* Every click of the run so far went to a control of the screen that was the
\* active one.
OnScreen == offScreenClicks = 0

\* C18 as stated: after any sequence of UI events on the active screen every
\* non-null entry userAnswers[i] has questionIndex = i, an index i of an
\* existing question and a choice that is an option key of question i, and so
\* has every answer that showResults hands to the engine.
C18_RecordedAnswersValid ==
  OnScreen =>
  /\ \A i \in DOMAIN userAnswers :
       userAnswers[i] # NULL =>
         /\ userAnswers[i].questionIndex = i
         /\ 0 <= i /\ i < Length(allQuestions)
         /\ userAnswers[i].choice \in DOMAIN allQuestions[i].options
  /\ \A n \in 1 .. Len(pendingImports) :
       \A key \in DOMAIN pendingImports[n] :
         /\ (key - 1) \in DOMAIN allQuestions
         /\ pendingImports[n][key].questionIndex = key - 1
         /\ pendingImports[n][key].choice \in DOMAIN allQuestions[key - 1].options


\* ------------------------------------------------------------------------
\* C20: the quiz advances one question at a time and scores once
\* ------------------------------------------------------------------------

\* C20 as stated: the quiz moves through the questions one at a time, so that
\* every question has been displayed before results are computed, and results
\* are computed exactly once (never a second time), also when clicks fall into
\* the delay of an auto-advance timer.  The clicks are those on the controls of
\* the active screen.
C20_AdvanceOneByOneScoreOnce ==
  OnScreen =>
  /\ currentQuestionIndex <= Length(allQuestions)
  /\ showResultsCalls > 0 => displayed = DOMAIN allQuestions
  /\ showResultsCalls <= 1
  /\ resultsComputed <= 1


\* ------------------------------------------------------------------------
\* C19: the reported pci against the reported theta
\* ------------------------------------------------------------------------

\* max(1, round(10 * |theta|)) of the reported theta of dichotomy d, which is
\* held in hundredths.
PciOfReported(d) == Max(1, (Abs(dichotomyResults[d].theta) + 5) \div 10)

\* The reported theta of d ends in 5 hundredths, above 0.05, which puts
\* 10 * |reported theta| on a half of a pci unit, and the value of
\* (|theta| / 3) * 30 computed from the estimate lies below that half: rounding
\* to 2 decimals lifted the estimate onto it.
LiftedOntoHalf(d) ==
  /\ Abs(dichotomyResults[d].theta) % 10 = 5
  /\ Abs(dichotomyResults[d].theta) > 5
  /\ rawPciCalculation(estimates[d]) < Abs(dichotomyResults[d].theta) * (ONE \div 10)

\* C19 as stated: in every reported result the pci equals
\* max(1, round(10 * |reported theta|)).
C19_PciMatchesReportedTheta ==
  \A d \in DOMAIN dichotomyResults :
    dichotomyResults[d].pci = PciOfReported(d)

\* C19 (amended): in every reported result the pci is
\* max(1, round(10 * |reported theta|)) or one less; it is one less exactly when
\* the reported theta ends in 5 hundredths (0.15, 0.25, ...) and the value of
\* (|theta| / 3) * 30 computed from the unrounded estimate lies below
\* 10 * |reported theta|, and equal otherwise.
C19_PciWithinOneOfReportedTheta ==
  \A d \in DOMAIN dichotomyResults :
    /\ dichotomyResults[d].pci \in { PciOfReported(d) - 1, PciOfReported(d) }
    /\ dichotomyResults[d].pci >= 1
    /\ dichotomyResults[d].pci # PciOfReported(d) <=> LiftedOntoHalf(d)

\* C19 witness: a call has finished with a result of the category "Slight"
\* whose pci, 5, is one less than the pci of its reported theta, 0.55.
C19_PciBelowReportedTheta ==
  /\ pc = "done"
  /\ \E d \in DOMAIN dichotomyResults :
       /\ dichotomyResults[d].theta = 55
       /\ dichotomyResults[d].pci = 5
       /\ dichotomyResults[d].pcc = "Slight"
       /\ PciOfReported(d) = 6
       /\ LiftedOntoHalf(d)


\* ------------------------------------------------------------------------
\* C21: navigation and the recorded answers
\* ------------------------------------------------------------------------

\* A step of navigation: the current question changes or showResults is called
\* (Skip, Previous, a timer running out) while the page stays loaded; a selection
\* and a click on the checked option leave both as they are.
NavigationStep ==
  /\ allQuestions' = allQuestions
  /\ \/ currentQuestionIndex' # currentQuestionIndex
     \/ showResultsCalls' > showResultsCalls

\* C21 as stated: navigation alone never changes a recorded answer: over a step
\* of navigation (Previous, Skip, the auto-advance timer) on the active screen
\* every non-null userAnswers[i] keeps its value.
C21_NavigationKeepsAnswers ==
  [][ NavigationStep /\ offScreenClicks' = 0 =>
        \A i \in DOMAIN userAnswers :
          userAnswers[i] # NULL =>
            i \in DOMAIN userAnswers' /\ userAnswers'[i] = userAnswers[i] ]_vars


\* ------------------------------------------------------------------------
\* C22: the type code derived by showFinalResults
\* ------------------------------------------------------------------------

\* The number of times dichotomy d was asked about since the click on Verify,
\* history being the dichotomies rendered since.
TimesAsked(history, d) == Cardinality({ k \in 1 .. Len(history) : history[k] = d })

\* C22: whenever showFinalResults runs in a run whose clicks all went to
\* controls of the active screen, the type code it derives has exactly four
\* letters in the order E-I, S-N, T-F, J-P; the letter of a dichotomy whose
\* reported pcc is not "Slight" is its reported preference, the letter of a
\* dichotomy whose pcc is "Slight" is the pole the respondent chose for it in
\* verification; and the verification begun by the click on Verify has asked
\* about each slight dichotomy exactly once and about no other dichotomy.
C22_FinalTypeCode ==
  [][ showFinalResultsCalls' > showFinalResultsCalls /\ offScreenClicks' = 0 =>
        /\ Len(finalPayload'.best_fit_type) = 4
        /\ finalPayload'.reported_type = reportedType'
        /\ \A k \in 1 .. 4 :
             LET d == DichotomyOrder[k]
                 letter == finalPayload'.best_fit_type[k]
             IN  IF reportedType'[d].pcc # "Slight"
                 THEN /\ letter = reportedType'[d].preference
                      /\ d \notin DOMAIN chosen'
                      /\ TimesAsked(asked', d) = 0
                 ELSE /\ d \in DOMAIN chosen'
                      /\ letter = chosen'[d]
                      /\ letter \in { HighPole(d), LowPole(d) }
                      /\ TimesAsked(asked', d) = 1 ]_vars

\* C22 witness: showFinalResults has run after a verification that asked about
\* some but not all dichotomies, and the respondent chose the pole opposite to
\* the reported preference for one of them.
C22_VerifiedAgainstReported ==
  /\ screen = "final"
  /\ OnScreen
  /\ showFinalResultsCalls > 0
  /\ Len(asked) \in 1 .. 3
  /\ Len(finalPayload.best_fit_type) = 4
  /\ \E d \in DOMAIN chosen : chosen[d] # reportedType[d].preference
  /\ \E d \in DOMAIN reportedType :
       /\ reportedType[d].pcc # "Slight"
       /\ bestFitType[d] = reportedType[d].preference

====
